---- MODULE Spec2Model ----
(***************************************************************************)
(* Model of the radius-diameter-message codec: the Diameter package        *)
(* (src/unnamed/part_000, the newest variant) and the RADIUS package       *)
(* (src/radius/radius.go lines 190-470, the slice-backed variant).         *)
(*                                                                         *)
(* A Go byte slice is the record [nil, b, tail]: b holds the len(s)        *)
(* visible bytes, tail the bytes of the backing array between len and cap  *)
(* (a slice expression s[lo:hi] is legal up to cap(s), an index s[i] only  *)
(* up to len(s)), nil tells the nil slice from an empty one.               *)
(*                                                                         *)
(* The packages keep no state of their own.  The program is a caller of    *)
(* one of them: pkg names the package, op the last call made and ret the   *)
(* value that call returned, which the next call takes as its receiver or  *)
(* argument (avps = avps.Add(..), readAvps(avps.ToBytes()), ...).          *)
(***************************************************************************)
EXTENDS Integers, Sequences, FiniteSets

VARIABLES pkg, op, ret

vars == <<pkg, op, ret>>

-----------------------------------------------------------------------------
(* Bounds of the model *)

\* longest payload, in bytes, of an AVP built on its own by NewAvp
MaxLen == 5
\* most AVPs in a collection built by Add
MaxAvps == 2
\* most spare capacity (cap - len) of a slice grown by append
MaxSpare == 1
\* longest raw input handed to ReadMessage beyond the 20-byte header
MaxExtra == 1
\* longest encoding, in bytes, of the members NewAvpGroup is given
MaxGroupLen == 28

\* iterations of the loop of readAvps followed one by one
MaxIterations == 3

\* the longest chain of Add calls that builds a receiver
MaxChain == 3

-----------------------------------------------------------------------------
(* Go slices and big-endian integers *)

NilSlice == [nil |-> TRUE, b |-> <<>>, tail |-> <<>>]

MkSlice(bytes) == [nil |-> FALSE, b |-> bytes, tail |-> <<>>]

\* a slice whose backing array has k more zero bytes than its length
MkSliceCap(bytes, k) == [nil |-> FALSE, b |-> bytes, tail |-> [i \in 1..k |-> 0]]

SliceLen(s) == Len(s.b)

SliceCap(s) == Len(s.b) + Len(s.tail)

\* s[lo:hi] panics unless 0 <= lo <= hi <= cap(s)
SliceOK(s, lo, hi) == 0 <= lo /\ lo <= hi /\ hi <= SliceCap(s)

SliceOf(s, lo, hi) ==
    LET full == s.b \o s.tail
    IN  [nil |-> FALSE, b |-> SubSeq(full, lo + 1, hi),
         tail |-> SubSeq(full, hi + 1, Len(full))]

Zeros(n) == [i \in 1..n |-> 0]

\* copy(dst[at:], src): overwrites min(len(dst)-at, len(src)) bytes
CopyAt(dst, at, src) ==
    [i \in 1..Len(dst) |->
        IF i > at /\ i - at <= Len(src) THEN src[i - at] ELSE dst[i]]

PutUint32(v) ==
    << (v \div 16777216) % 256, (v \div 65536) % 256, (v \div 256) % 256, v % 256 >>

\* binary.BigEndian.Uint32: a uint32 of 2^31 or more is kept as the integer of
\* the same 32 bits (the value less 2^32); PutUint32 gives its bytes back, and
\* such values are only compared for equality
Uint32(b) ==
    (IF b[1] >= 128 THEN b[1] - 256 ELSE b[1]) * 16777216
        + b[2] * 65536 + b[3] * 256 + b[4]

\* binary.BigEndian.PutUint32 of uint32(x), x an int64 kept as
\* hi * 65536 + lo with 0 <= lo < 65536: the conversion keeps the low 32 bits
PutUint32Wide(x) ==
    <<(x.hi % 65536) \div 256, x.hi % 256, x.lo \div 256, x.lo % 256>>

PutUint16(v) == << (v \div 256) % 256, v % 256 >>

writeUInt24(value) == Tail(PutUint32(value))

readUInt24(bytes) ==
    Uint32(IF Len(bytes) = 3 THEN <<0>> \o bytes ELSE bytes)

\* the payload 1, 2, ..., n
Pay(n) == [i \in 1..n |-> i]

-----------------------------------------------------------------------------
(* Diameter: AVP.  The uint32 length and padding fields cannot wrap for    *)
(* payloads shorter than 2^32 - 12 bytes, so they are plain integers.      *)

NewAvp(code, flags, vendorId, avpData) ==
    LET n        == Len(avpData.b)
        rem      == n % 4
        padding  == IF rem # 0 THEN 4 - rem ELSE rem
        length0  == n + 8
        length   == IF vendorId # 0 THEN length0 + 4 ELSE length0
    IN  [Code |-> code, Flags |-> flags, length |-> length,
         VendorId |-> vendorId, Data |-> avpData, padding |-> padding]

NewAvpUint32(code, flags, vendorId, value) ==
    NewAvp(code, flags, vendorId, MkSlice(PutUint32(value)))

\* net.IP.To4: the 4-byte form of an IPv4 address, given as 4 bytes or as the
\* 16 bytes ::ffff:a.b.c.d, and nil (here the empty sequence) otherwise
To4(ip) ==
    IF Len(ip) = 4 THEN ip
    ELSE IF Len(ip) = 16 /\ SubSeq(ip, 1, 10) = Zeros(10)
                /\ ip[11] = 255 /\ ip[12] = 255
         THEN SubSeq(ip, 13, 16)
    ELSE <<>>

\* net.IP.To16: nil (the empty sequence) unless the address has 4 or 16 bytes
To16(ip) ==
    IF Len(ip) = 4 THEN Zeros(10) \o <<255, 255>> \o ip
    ELSE IF Len(ip) = 16 THEN ip
    ELSE <<>>

NewAvpNetIP(code, flags, vendorId, value) ==
    IF To4(value) # <<>>
    THEN NewAvp(code, flags, vendorId,
                MkSlice(CopyAt(CopyAt(Zeros(6), 1, <<1>>), 2, To4(value))))
    ELSE NewAvp(code, flags, vendorId,
                MkSlice(CopyAt(CopyAt(Zeros(18), 1, <<2>>), 2, To16(value))))

\* value is value.Unix(), kept as hi * 65536 + lo
NewAvpTime(code, flags, vendorId, value) ==
    NewAvp(code, flags, vendorId, MkSlice(PutUint32Wide(value)))

AvpToBytes(a) ==
    LET b0 == Zeros(a.length + a.padding)
        b1 == CopyAt(b0, 0, PutUint32(a.Code))
        b2 == CopyAt(b1, 4, <<a.Flags>>)
        b3 == CopyAt(b2, 5, writeUInt24(a.length))
    IN  IF a.VendorId # 0
        THEN CopyAt(CopyAt(b3, 8, PutUint32(a.VendorId)), 12, a.Data.b)
        ELSE CopyAt(b3, 8, a.Data.b)

\* Avp.ToBytes of the older variants (src/diameter/diameter.go): the length
\* counts a vendor id that is never written
AvpToBytesOlder(a) ==
    LET b0 == Zeros(a.length + a.padding)
        b1 == CopyAt(b0, 0, PutUint32(a.Code))
        b2 == CopyAt(b1, 4, <<a.Flags>>)
        b3 == CopyAt(b2, 5, writeUInt24(a.length))
    IN  CopyAt(b3, 8, a.Data.b)

RECURSIVE AvpsToBytes(_)
AvpsToBytes(a) ==
    IF a = <<>> THEN <<>> ELSE AvpToBytes(Head(a)) \o AvpsToBytes(Tail(a))

NewAvpGroup(code, flags, vendorId, group) ==
    NewAvp(code, flags, vendorId, MkSlice(AvpsToBytes(group)))

NewAvps == <<>>

Panic == [status |-> "panic", avps |-> <<>>]

\* offset += length + int(avp.padding), as it would be 4 bytes short
readAvpsAdvanceShort(offset, length, padding) == offset + length + padding - 4

\* offset += length + int(avp.padding)
readAvpsAdvance(offset, length, padding) == offset + length + padding

\* an iteration of the loop of readAvps that panicked
Fault == [status |-> "panic", avp |-> NewAvp(0, 0, 0, NilSlice), offset |-> 0]

\* one iteration of the loop of readAvps at the given offset: the AVP it
\* appends and the offset it leaves
readAvpsIteration(bytes, offset) ==
    IF ~SliceOK(bytes, offset, offset + 4) THEN Fault
    ELSE IF ~(offset + 4 < SliceLen(bytes)) THEN Fault
    ELSE IF ~SliceOK(bytes, offset + 5, offset + 8) THEN Fault
    ELSE
      LET code           == Uint32(SliceOf(bytes, offset, offset + 4).b)
          flags          == bytes.b[offset + 5]
          vendorSpecific == (flags \div 128) % 2 # 0
          length         == readUInt24(SliceOf(bytes, offset + 5, offset + 8).b)
      IN  IF vendorSpecific
          THEN IF ~SliceOK(bytes, offset + 8, offset + 12) THEN Fault
               ELSE IF ~SliceOK(bytes, offset + 12, offset + length) THEN Fault
               ELSE LET vendorId == Uint32(SliceOf(bytes, offset + 8, offset + 12).b)
                        avpData  == SliceOf(bytes, offset + 12, offset + length)
                        avp      == NewAvp(code, flags, vendorId, avpData)
                    IN  [status |-> "ok", avp |-> avp,
                         offset |-> readAvpsAdvance(offset, length, avp.padding)]
          ELSE IF ~SliceOK(bytes, offset + 8, offset + length) THEN Fault
               ELSE LET avpData == SliceOf(bytes, offset + 8, offset + length)
                        avp     == NewAvp(code, flags, 0, avpData)
                    IN  [status |-> "ok", avp |-> avp,
                         offset |-> readAvpsAdvance(offset, length, avp.padding)]

\* the loop of readAvps as it would be if it decoded groups eagerly: an AVP
\* whose payload decodes to AVPs is replaced by them
RECURSIVE readAvpsEager(_, _, _)
readAvpsEager(bytes, offset, read) ==
    IF ~(offset < SliceLen(bytes)) THEN [status |-> "ok", avps |-> read]
    ELSE LET it == readAvpsIteration(bytes, offset)
         IN  IF it.status # "ok" THEN Panic
             ELSE LET nested == readAvpsEager(it.avp.Data, 0, NewAvps)
                  IN  readAvpsEager(bytes, it.offset,
                          IF nested.status = "ok" /\ nested.avps # <<>>
                          THEN read \o nested.avps
                          ELSE Append(read, it.avp))

\* the loop of readAvps from the given offset, avps being the AVPs read so far
RECURSIVE readAvpsFrom(_, _, _)
readAvpsFrom(bytes, offset, read) ==
    IF ~(offset < SliceLen(bytes)) THEN [status |-> "ok", avps |-> read]
    ELSE LET it == readAvpsIteration(bytes, offset)
         IN  IF it.status # "ok" THEN Panic
             ELSE readAvpsFrom(bytes, it.offset, Append(read, it.avp))

readAvps(bytes) == readAvpsFrom(bytes, 0, NewAvps)

-----------------------------------------------------------------------------
(* Diameter: message *)

\* Message.length as it would be if the loop added length without padding
RECURSIVE SumLengthOnly(_)
SumLengthOnly(a) ==
    IF a = <<>> THEN 0 ELSE Head(a).length + SumLengthOnly(Tail(a))

MessageLengthNoPadding(m) == 20 + SumLengthOnly(m.Avps)

\* Message.length: a uint32 sum, which cannot wrap within the model's sizes
RECURSIVE SumEncoded(_)
SumEncoded(a) ==
    IF a = <<>> THEN 0 ELSE Head(a).length + Head(a).padding + SumEncoded(Tail(a))

MessageLength(m) == 20 + SumEncoded(m.Avps)

NewMessage(version, flags, commandCode, applicationId, hopByHopId, endToEndId, a) ==
    [Version |-> version, Flags |-> flags, CommandCode |-> commandCode,
     ApplicationId |-> applicationId, HopByHopId |-> hopByHopId,
     EndToEndId |-> endToEndId, Avps |-> a]

MessageToBytes(message) ==
    <<message.Version>> \o writeUInt24(MessageLength(message))
        \o <<message.Flags>> \o writeUInt24(message.CommandCode)
        \o PutUint32(message.ApplicationId)
        \o message.HopByHopId \o message.EndToEndId
        \o AvpsToBytes(message.Avps)

ZeroMessage == NewMessage(0, 0, 0, 0, Zeros(4), Zeros(4), <<>>)

\* ReadMessage past its length check: the header is sliced by fixed offsets
\* and the rest handed to readAvps; a slice or index out of range panics
ReadMessageBody(bytes) ==
    IF ~(SliceOK(bytes, 12, 16) /\ SliceOK(bytes, 16, 20) /\ 4 < SliceLen(bytes)
         /\ SliceOK(bytes, 5, 8) /\ SliceOK(bytes, 8, 12)
         /\ SliceOK(bytes, 20, SliceLen(bytes)))
    THEN [status |-> "panic", nil |-> TRUE, err |-> "", msg |-> ZeroMessage]
    ELSE LET rest == readAvps(SliceOf(bytes, 20, SliceLen(bytes)))
         IN  IF rest.status # "ok"
             THEN [status |-> rest.status, nil |-> TRUE, err |-> "", msg |-> ZeroMessage]
             ELSE [status |-> "ok", nil |-> FALSE, err |-> "",
                   msg |-> [Version       |-> bytes.b[1],
                            Flags         |-> bytes.b[5],
                            CommandCode   |-> readUInt24(SliceOf(bytes, 5, 8).b),
                            ApplicationId |-> Uint32(SliceOf(bytes, 8, 12).b),
                            HopByHopId    |-> SliceOf(bytes, 12, 16).b,
                            EndToEndId    |-> SliceOf(bytes, 16, 20).b,
                            Avps          |-> rest.avps]]

\* ReadMessage as it would be without its length check
ReadMessageUnchecked(bytes) == ReadMessageBody(bytes)

\* the pair (*Message, error) that ReadMessage returns, or its panic
\* ReadMessage as it would be if it rejected a length field that is not the
\* length of the input
ReadMessageFramed(bytes) ==
    IF SliceLen(bytes) < 20
           \/ readUInt24(SubSeq(bytes.b, 2, 4)) # SliceLen(bytes)
    THEN [status |-> "ok", nil |-> TRUE, err |-> "invalid message length",
          msg |-> ZeroMessage]
    ELSE ReadMessageBody(bytes)

ReadMessage(bytes) ==
    IF SliceLen(bytes) < 20
    THEN [status |-> "ok", nil |-> TRUE, err |-> "invalid message length",
          msg |-> ZeroMessage]
    ELSE ReadMessageBody(bytes)

-----------------------------------------------------------------------------
(* Diameter: lookup *)

\* Get as it would be if it compared the code alone
RECURSIVE GetByCode(_, _, _)
GetByCode(a, code, vendorId) ==
    IF a = <<>> THEN NewAvps
    ELSE IF Head(a).Code = code
         THEN <<Head(a)>> \o GetByCode(Tail(a), code, vendorId)
         ELSE GetByCode(Tail(a), code, vendorId)

RECURSIVE Get(_, _, _)
Get(a, code, vendorId) ==
    IF a = <<>> THEN NewAvps
    ELSE IF Head(a).Code = code /\ Head(a).VendorId = vendorId
         THEN <<Head(a)>> \o Get(Tail(a), code, vendorId)
         ELSE Get(Tail(a), code, vendorId)

ZeroAvp == NewAvp(0, 0, 0, NilSlice)

NilAvp == [nil |-> TRUE, avp |-> ZeroAvp]

\* the *Avp that GetFirst returns: a copy of the first match, or nil
RECURSIVE GetFirst(_, _, _)
\* WithFlags as it would be with a value receiver: the assignment is lost
WithFlagsLost(p, flags) == p

\* WithFlags on the pointer p: the AVP it points to is changed in place and
\* the same pointer returned
WithFlags(p, flags) ==
    IF p.nil THEN p ELSE [p EXCEPT !.avp.Flags = flags]

\* GetFirst as it would be if it returned &a[i]: the index of the match
RECURSIVE GetFirstElement(_, _, _)
GetFirstElement(a, code, vendorId) ==
    IF a = <<>> THEN 0
    ELSE IF a[Len(a)].Code = code /\ a[Len(a)].VendorId = vendorId
              /\ GetFirstElement(SubSeq(a, 1, Len(a) - 1), code, vendorId) = 0
         THEN Len(a)
    ELSE GetFirstElement(SubSeq(a, 1, Len(a) - 1), code, vendorId)

\* the element of a that the pointer returned by GetFirst points into: none
\* (0), since &avp is the address of the loop variable, a copy
GetFirstTarget(a, code, vendorId) == 0

GetFirst(a, code, vendorId) ==
    IF a = <<>> THEN NilAvp
    ELSE IF Head(a).Code = code /\ Head(a).VendorId = vendorId
         THEN [nil |-> FALSE, avp |-> Head(a)]
         ELSE GetFirst(Tail(a), code, vendorId)

\* ToGroup as it would be without its nil checks: a.Data on a nil pointer
\* panics
ToGroupUnchecked(p) == IF p.nil THEN Panic ELSE readAvps(p.avp.Data)

\* ToGroup on the pointer p
ToGroup(p) ==
    IF p.nil \/ p.avp.Data.nil THEN [status |-> "ok", avps |-> NewAvps]
    ELSE readAvps(p.avp.Data)

-----------------------------------------------------------------------------
(* Diameter: typed accessors on the pointer p.  A pointer result is        *)
(* [status, nil, val]; an integer wider than TLC's is kept in 32-bit       *)
(* halves, a float as its bit pattern, a time as its Unix seconds.         *)

Absent == [status |-> "ok", nil |-> TRUE, val |-> <<>>]

Present(v) == [status |-> "ok", nil |-> FALSE, val |-> v]

AccPanic == [status |-> "panic", nil |-> TRUE, val |-> <<>>]

\* a 32-bit value hi * 65536 + lo, 0 <= lo < 65536 (TLC's integers are 32
\* bits wide)
Uint32Wide(b) == [hi |-> b[1] * 256 + b[2], lo |-> b[3] * 256 + b[4]]

\* binary.BigEndian.Uint64 panics on fewer than 8 bytes; the value is kept
\* as its two 32-bit halves
Uint64(b) ==
    [hi |-> Uint32Wide(SubSeq(b, 1, 4)), lo |-> Uint32Wide(SubSeq(b, 5, 8))]

\* the uint32 0
Zero32 == [hi |-> 0, lo |-> 0]

\* the uint64 0
Zero64 == [hi |-> Zero32, lo |-> Zero32]

ToData(p) == IF p.nil THEN NilSlice ELSE p.avp.Data

ToString(p) ==
    IF p.nil \/ p.avp.Data.nil THEN Absent ELSE Present(p.avp.Data.b)

ToUint32(p) ==
    IF p.nil \/ p.avp.Data.nil THEN Absent
    ELSE IF SliceLen(p.avp.Data) < 4 THEN AccPanic
    ELSE Present(Uint32Wide(p.avp.Data.b))

ToUint64(p) ==
    IF p.nil \/ p.avp.Data.nil THEN Absent
    ELSE IF SliceLen(p.avp.Data) < 8 THEN AccPanic
    ELSE Present(Uint64(p.avp.Data.b))

ToFloat32(p) ==
    IF p.nil \/ p.avp.Data.nil THEN Absent
    ELSE IF SliceLen(p.avp.Data) < 4 THEN AccPanic
    ELSE Present([bits |-> Uint32Wide(p.avp.Data.b)])

ToFloat64(p) ==
    IF p.nil \/ p.avp.Data.nil THEN Absent
    ELSE IF SliceLen(p.avp.Data) < 8 THEN AccPanic
    ELSE Present([bits |-> Uint64(p.avp.Data.b)])

\* ToNetIP as it would be if it took 16 bytes whatever the family tag
ToNetIPAny(p) ==
    IF p.nil \/ p.avp.Data.nil THEN Absent
    ELSE IF ~SliceOK(p.avp.Data, 2, 18) THEN AccPanic
    ELSE Present(SliceOf(p.avp.Data, 2, 18).b)

ToNetIP(p) ==
    IF p.nil \/ p.avp.Data.nil THEN Absent
    ELSE IF SliceLen(p.avp.Data) < 2 THEN AccPanic
    ELSE IF p.avp.Data.b[2] = 1
         THEN IF ~SliceOK(p.avp.Data, 2, 6) THEN AccPanic
              ELSE Present(SliceOf(p.avp.Data, 2, 6).b)
         ELSE IF ~SliceOK(p.avp.Data, 2, 18) THEN AccPanic
              ELSE Present(SliceOf(p.avp.Data, 2, 18).b)

\* x - y on values kept as hi * 65536 + lo: a 64-bit count of seconds
WideSub(x, y) ==
    IF x.lo >= y.lo THEN [hi |-> x.hi - y.hi, lo |-> x.lo - y.lo]
    ELSE [hi |-> x.hi - y.hi - 1, lo |-> x.lo - y.lo + 65536]

\* 2208988800 = 33706 * 65536 + 32384
EpochOffset == [hi |-> 33706, lo |-> 32384]

\* ToTime as it would be without the epoch offset
ToTimeNoOffset(p) ==
    IF p.nil \/ p.avp.Data.nil THEN Absent
    ELSE IF SliceLen(p.avp.Data) < 4 THEN AccPanic
    ELSE Present([zero |-> FALSE, unix |-> Uint32Wide(p.avp.Data.b)])

ToTime(p) ==
    IF p.nil \/ p.avp.Data.nil THEN Absent
    ELSE IF SliceLen(p.avp.Data) < 4 THEN AccPanic
    ELSE Present([zero |-> FALSE,
                  unix |-> WideSub(Uint32Wide(p.avp.Data.b), EpochOffset)])

\* the ...OrDefault variant of the pointer accessor result r, zero being the
\* zero value of its type
OrDefault(r, zero) ==
    IF r.status # "ok" THEN [status |-> r.status, val |-> zero]
    ELSE IF r.nil THEN [status |-> "ok", val |-> zero]
    ELSE [status |-> "ok", val |-> r.val]

ToStringOrDefault(p) == OrDefault(ToString(p), <<>>)

ToUint32OrDefault(p) == OrDefault(ToUint32(p), Zero32)

ToUint64OrDefault(p) == OrDefault(ToUint64(p), Zero64)

ToFloat32OrDefault(p) == OrDefault(ToFloat32(p), [bits |-> Zero32])

ToFloat64OrDefault(p) == OrDefault(ToFloat64(p), [bits |-> Zero64])

ToNetIPOrDefault(p) == OrDefault(ToNetIP(p), <<>>)

ToTimeOrDefault(p) == OrDefault(ToTime(p), [zero |-> TRUE, unix |-> [hi |-> 0, lo |-> 0]])

-----------------------------------------------------------------------------
(* RADIUS: AVP, collection, message.  The length field of an AVP is a byte *)
(* and the length of a message a uint16: both wrap.                        *)

RadiusNewAvp(attributeType, vendorId, avpData) ==
    [Type     |-> attributeType,
     length   |-> IF vendorId = 0 THEN (Len(avpData.b) + 2) % 256
                  ELSE (Len(avpData.b) + 8) % 256,
     VendorId |-> vendorId,
     Data     |-> avpData]

RadiusNewAvpUint32(attributeType, vendorId, value) ==
    RadiusNewAvp(attributeType, vendorId, MkSlice(PutUint32(value)))

RadiusNewAvpTime(attributeType, vendorId, value) ==
    RadiusNewAvp(attributeType, vendorId, MkSlice(PutUint32Wide(value)))

RadiusAvpToBytes(a) ==
    IF a.VendorId = 0
    THEN <<a.Type % 256, a.length>> \o a.Data.b
    ELSE <<26, a.length>> \o PutUint32(a.VendorId)
             \o <<a.Type % 256, (Len(a.Data.b) + 2) % 256>> \o a.Data.b

RECURSIVE RadiusAvpsToBytes(_)
RadiusAvpsToBytes(a) ==
    IF a = <<>> THEN <<>>
    ELSE RadiusAvpToBytes(Head(a)) \o RadiusAvpsToBytes(Tail(a))

Hang == [status |-> "hang", avps |-> <<>>]

RadiusFault == [status |-> "panic", avp |-> RadiusNewAvp(0, 0, NilSlice), offset |-> 0]

\* the offset after a vendor-specific attribute, as it would be if the
\* decoder went on to the next sub-attribute
RadiusReadAvpsAdvanceInner(offset, length, avpLength) == offset + 6 + avpLength

\* the offset after a vendor-specific attribute: offset += int(length), the
\* outer length
RadiusReadAvpsAdvance(offset, length, avpLength) == offset + length

\* one iteration of the loop of readAvps at the given offset: the AVP it
\* appends and the offset it leaves
RadiusReadAvpsIteration(bytes, offset) ==
    IF ~(offset + 1 < SliceLen(bytes)) THEN RadiusFault
    ELSE
      LET attributeType == bytes.b[offset + 1]
          length        == bytes.b[offset + 2]
      IN  IF attributeType = 26
          THEN IF ~SliceOK(bytes, offset + 2, offset + 6) THEN RadiusFault
               ELSE IF ~(offset + 7 < SliceLen(bytes)) THEN RadiusFault
               ELSE LET vendorId  == Uint32(SliceOf(bytes, offset + 2, offset + 6).b)
                        innerType == bytes.b[offset + 7]
                        avpLength == bytes.b[offset + 8]
                    IN  IF ~SliceOK(bytes, offset + 8, offset + 6 + avpLength)
                        THEN RadiusFault
                        ELSE [status |-> "ok",
                              avp |-> RadiusNewAvp(innerType, vendorId,
                                          SliceOf(bytes, offset + 8,
                                                  offset + 6 + avpLength)),
                              offset |-> RadiusReadAvpsAdvance(offset, length,
                                                               avpLength)]
          ELSE IF ~SliceOK(bytes, offset + 2, offset + length) THEN RadiusFault
               ELSE [status |-> "ok",
                     avp |-> RadiusNewAvp(attributeType, 0,
                                 SliceOf(bytes, offset + 2, offset + length)),
                     offset |-> offset + length]

\* the loop of readAvps from the given offset.  An iteration that neither
\* panics nor moves the offset repeats forever (status "hang").
RECURSIVE RadiusReadAvpsFrom(_, _, _)
RadiusReadAvpsFrom(bytes, offset, read) ==
    IF ~(offset < SliceLen(bytes)) THEN [status |-> "ok", avps |-> read]
    ELSE LET it == RadiusReadAvpsIteration(bytes, offset)
         IN  IF it.status # "ok" THEN Panic
             ELSE IF it.offset = offset THEN Hang
             ELSE RadiusReadAvpsFrom(bytes, it.offset, Append(read, it.avp))

RadiusReadAvps(bytes) == RadiusReadAvpsFrom(bytes, 0, NewAvps)

RECURSIVE RadiusSumLength(_)
RadiusSumLength(a) ==
    IF a = <<>> THEN 0 ELSE (Head(a).length + RadiusSumLength(Tail(a))) % 65536

RadiusMessageLength(m) == (20 + RadiusSumLength(m.Avps)) % 65536

RadiusNewMessage(code, identifier, authenticator, a) ==
    [Code |-> code, Identifier |-> identifier, Authenticator |-> authenticator,
     Avps |-> a]

RadiusMessageToBytes(m) ==
    <<m.Code % 256, m.Identifier>> \o PutUint16(RadiusMessageLength(m))
        \o m.Authenticator \o RadiusAvpsToBytes(m.Avps)

\* Avps.Add of the map-backed collection m: the AVP goes to the end of the
\* slice kept under its key (type, vendor id); newAvp is NewAvp
MapAdd(m, attributeType, vendorId, data) ==
    LET avpId == <<attributeType, vendorId>>
        avp   == RadiusNewAvp(attributeType, vendorId, data)
    IN  [k \in DOMAIN m \cup {avpId} |->
            IF k # avpId THEN m[k]
            ELSE IF avpId \in DOMAIN m THEN Append(m[avpId], avp) ELSE <<avp>>]

\* the AVPs of the map-backed collection m as the nested range loops of
\* Message.ToBytes visit them, the keys taken in the given order
RECURSIVE MapRange(_, _)
MapRange(m, order) ==
    IF Len(order) = 0 THEN <<>>
    ELSE m[order[1]] \o MapRange(m, [i \in 1..(Len(order) - 1) |-> order[i + 1]])

RadiusZeroMessage == RadiusNewMessage(0, 0, Zeros(16), <<>>)

\* ReadMessage past its length check
RadiusReadMessageBody(bytes) ==
    IF ~(SliceOK(bytes, 4, 20) /\ 1 < SliceLen(bytes)
         /\ SliceOK(bytes, 20, SliceLen(bytes)))
    THEN [status |-> "panic", nil |-> TRUE, err |-> "", msg |-> RadiusZeroMessage]
    ELSE LET rest == RadiusReadAvps(SliceOf(bytes, 20, SliceLen(bytes)))
         IN  IF rest.status # "ok"
             THEN [status |-> rest.status, nil |-> TRUE, err |-> "",
                   msg |-> RadiusZeroMessage]
             ELSE [status |-> "ok", nil |-> FALSE, err |-> "",
                   msg |-> [Code          |-> bytes.b[1],
                            Identifier    |-> bytes.b[2],
                            Authenticator |-> SliceOf(bytes, 4, 20).b,
                            Avps          |-> rest.avps]]

\* the *Message that ReadMessage returns (it has no error result), or its panic
RadiusReadMessage(bytes) ==
    IF SliceLen(bytes) < 20
    THEN [status |-> "ok", nil |-> TRUE, err |-> "", msg |-> RadiusZeroMessage]
    ELSE RadiusReadMessageBody(bytes)

\* Get returns nil for a nil receiver and the matches otherwise; the model
\* does not tell a nil collection from an empty one (len, range and append
\* treat them alike)
RECURSIVE RadiusGet(_, _, _)
RadiusGet(a, attributeType, vendorId) ==
    IF a = <<>> THEN NewAvps
    ELSE IF Head(a).Type = attributeType /\ Head(a).VendorId = vendorId
         THEN <<Head(a)>> \o RadiusGet(Tail(a), attributeType, vendorId)
         ELSE RadiusGet(Tail(a), attributeType, vendorId)

RadiusZeroAvp == RadiusNewAvp(0, 0, NilSlice)

RadiusNilAvp == [nil |-> TRUE, avp |-> RadiusZeroAvp]

RECURSIVE RadiusGetFirst(_, _, _)
RadiusGetFirst(a, attributeType, vendorId) ==
    IF a = <<>> THEN RadiusNilAvp
    ELSE IF Head(a).Type = attributeType /\ Head(a).VendorId = vendorId
         THEN [nil |-> FALSE, avp |-> Head(a)]
         ELSE RadiusGetFirst(Tail(a), attributeType, vendorId)

RadiusToString(p) ==
    IF p.nil \/ p.avp.Data.nil THEN Absent ELSE Present(p.avp.Data.b)

RadiusToUint32(p) ==
    IF p.nil \/ p.avp.Data.nil THEN Absent
    ELSE IF SliceLen(p.avp.Data) < 4 THEN AccPanic
    ELSE Present(Uint32Wide(p.avp.Data.b))

RadiusToNetIP(p) ==
    IF p.nil \/ p.avp.Data.nil THEN Absent ELSE Present(p.avp.Data.b)

RadiusToTime(p) ==
    IF p.nil \/ p.avp.Data.nil THEN Absent
    ELSE IF SliceLen(p.avp.Data) < 4 THEN AccPanic
    ELSE Present([zero |-> FALSE, unix |-> Uint32Wide(p.avp.Data.b)])

RadiusToStringOrDefault(p) == OrDefault(RadiusToString(p), <<>>)

RadiusToUint32OrDefault(p) == OrDefault(RadiusToUint32(p), Zero32)

RadiusToNetIPOrDefault(p) == OrDefault(RadiusToNetIP(p), <<>>)

RadiusToTimeOrDefault(p) ==
    OrDefault(RadiusToTime(p), [zero |-> TRUE, unix |-> [hi |-> 0, lo |-> 0]])

-----------------------------------------------------------------------------
(* Inputs of the calls *)

Codes == {1, 258}

\* the code of a grouped AVP
GroupCodes == {456}

\* the (flags, vendor id) a grouped AVP is built with
GroupShapes == {<<0, 0>>, <<128, 10415>>}

\* the codes looked up in the collection a: those of plain AVPs and, where a
\* holds a grouped AVP, that of groups
LookupCodes(a) ==
    Codes \cup {c \in GroupCodes : \E i \in 1..Len(a) : a[i].Code = c}

FlagSet == {0, 64, 128, 192}

VendorIds == {0, 10415}

\* payloads of an AVP built on its own: nil, and 1..n for n up to MaxLen
Payloads == {NilSlice} \cup {MkSlice(Pay(n)) : n \in 0..MaxLen}

\* 4-byte payloads read as timestamps: 0, 0xe9ef665d (2024-05-15 in seconds
\* since 1900) and 0xffffffff
StampPayloads ==
    {MkSlice(<<0, 0, 0, 0>>), MkSlice(<<233, 239, 102, 93>>),
     MkSlice(<<255, 255, 255, 255>>)}

\* (version, flags, commandCode, applicationId) given to NewMessage: a usual
\* request, the largest values 3 bytes hold for the command code and 31 bits
\* for the application id, and the command code 2^24
Headers ==
    {<<1, 128, 265, 1>>, <<255, 255, 16777215, 2147483647>>, <<0, 0, 16777216, 0>>}

\* (code, identifier, authenticator) given to the RADIUS NewMessage; Code is
\* declared uint32
RadiusHeaders ==
    {<<1, 1, Zeros(16)>>, <<255, 255, Pay(16)>>, <<256, 1, Zeros(16)>>}

\* the addresses given to NewAvpNetIP: 100.98.179.174 as 4 bytes and as the 16
\* bytes net.IPv4 returns, and the IPv6 addresses 2001:db8::1 and ::1
IPs ==
    {<<100, 98, 179, 174>>,
     Zeros(10) \o <<255, 255, 100, 98, 179, 174>>,
     <<32, 1, 13, 184>> \o Zeros(11) \o <<1>>,
     Zeros(15) \o <<1>>}

\* value.Unix() of the times given to NewAvpTime, as hi * 65536 + lo: 0,
\* 1715791837 (2024-05-15) and 2^31
Times ==
    {[hi |-> 0, lo |-> 0], [hi |-> 26180, lo |-> 59357], [hi |-> 32768, lo |-> 0]}

\* (flags, vendor id) of an AVP appended to a collection: no vendor, a vendor
\* with the vendor bit 0x80, a vendor without it
AddShapes == {<<0, 0>>, <<128, 10415>>, <<0, 10415>>}

\* payloads of an AVP appended to a collection
AddPayloads == {MkSlice(Pay(1)), MkSlice(Pay(4))}

Ids == {Zeros(4), <<1, 2, 3, 4>>}

\* RADIUS attribute types: an ordinary one and Vendor-Specific
AttributeTypes == {1, 26}

\* the payloads of a RADIUS AVP built on its own: the short ones and one too
\* long for the length byte
RadiusPayloads == Payloads \cup StampPayloads \cup {MkSlice(Pay(254))}

RadiusAddPayloads == {MkSlice(Pay(1)), MkSlice(Pay(4)), MkSlice(Pay(254))}

\* raw inputs of ReadMessage: n equal bytes, with spare capacity k
RawInputs ==
    {MkSliceCap([i \in 1..n |-> fill], k) :
        n \in 0..(20 + MaxExtra), fill \in {0, 1}, k \in 0..MaxSpare}

\* the bytes of well-formed and malformed AVPs given to the Diameter readAvps:
\* one AVP, one AVP with padding, one AVP whose padding is missing, a
\* header-only AVP followed by another AVP, a declared length of 4 and of 0,
\* a declared length past the end, 3 bytes, a vendor flag with length 8, and
\* a vendor flag over the vendor id 0 and over the vendor id 10415
RawAvps ==
    {<<0, 0, 0, 1, 0, 0, 0, 12, 0, 0, 0, 1>>,
     <<0, 0, 0, 1, 0, 0, 0, 9, 7, 0, 0, 0>>,
     <<0, 0, 0, 1, 0, 0, 0, 9, 7>>,
     <<0, 0, 0, 2, 0, 0, 0, 8, 0, 0, 0, 1, 0, 0, 0, 12, 0, 0, 0, 1>>,
     <<0, 0, 0, 1, 0, 0, 0, 4>>,
     <<0, 0, 0, 1, 0, 0, 0, 0>>,
     <<0, 0, 0, 1, 0, 0, 0, 16, 0, 0, 0, 1>>,
     <<0, 0, 0>>,
     <<0, 0, 0, 1, 128, 0, 0, 8, 0, 0, 0, 1>>,
     <<0, 0, 0, 1, 128, 0, 0, 12, 0, 0, 0, 0>>,
     <<0, 0, 0, 1, 128, 0, 0, 16, 0, 0, 40, 175, 0, 0, 0, 1>>}

\* the bytes given to the RADIUS readAvps: one attribute, one vendor
\* attribute, two attributes, type 26 with the outer length 0, 3 and 9 over
\* an inner length of 2, an ordinary attribute of length 0 and of length 1,
\* a length past the end, and a single byte
RadiusRawAvps ==
    {<<1, 6, 0, 0, 0, 1>>,
     <<26, 12, 0, 0, 40, 175, 1, 6, 0, 0, 0, 1>>,
     <<1, 3, 7, 2, 2>>,
     <<26, 0, 0, 0, 40, 175, 1, 2>>,
     <<26, 3, 0, 0, 40, 175, 1, 2, 9>>,
     <<26, 9, 0, 0, 40, 175, 1, 2, 9>>,
     <<26, 14, 0, 0, 40, 175, 1, 3, 7, 2, 5, 1, 2, 3>>,
     <<1, 0>>,
     <<1, 1>>,
     <<1, 6, 0>>,
     <<1>>}

\* spare capacities of a slice that append grew to n bytes from empty
Spares(n) == IF n = 0 THEN {0} ELSE 0..MaxSpare

-----------------------------------------------------------------------------
(* Values returned by the last call *)

None == [kind |-> "none"]

\* the constructors whose argument is kept with the value read back
TypedConstructors == {"NewAvpTime", "NewAvpNetIP"}

\* bytes: from names what was encoded ("avp", "avps", "msg"), of is that value
RetBytes(from, of, s) == [kind |-> "bytes", from |-> from, of |-> of, s |-> s]

\* a collection: from names the call ("build" for NewAvps and Add), of its
\* receiver or the value whose encoding was decoded, key the (code, vendor)
\* looked up, arg the pointer ToGroup was called on, in the bytes decoded,
\* chain what is known of the chain of lookups that led here: rootEmpty,
\* whether it started from an empty collection, and viaGroup, whether it went
\* through ToGroup
RetAvps(from, of, key, arg, in, r, chain) ==
    [kind |-> "avps", from |-> from, of |-> of, key |-> key, arg |-> arg,
     in |-> in, status |-> r.status, avps |-> r.avps,
     rootEmpty |-> chain.rootEmpty, viaGroup |-> chain.viaGroup]

RetAvp(p, of, key, chain) ==
    [kind |-> "avp", nil |-> p.nil, avp |-> p.avp, of |-> of, key |-> key,
     rootEmpty |-> chain.rootEmpty, viaGroup |-> chain.viaGroup]

\* a value an accessor returned: arg is the pointer it was called on, by and
\* of the typed constructor that built the AVP and the value it was given,
\* when the accessor is called on what a typed constructor returned
RetValue(arg, r, chain) ==
    [kind |-> "value", arg |-> arg, r |-> r,
     by |-> IF op \in TypedConstructors THEN op ELSE "",
     of |-> IF op \in TypedConstructors THEN ret.of ELSE <<>>,
     rootEmpty |-> chain.rootEmpty, viaGroup |-> chain.viaGroup]

\* a chain that starts at the collection a
ChainAt(a) == [rootEmpty |-> a = <<>>, viaGroup |-> FALSE]

\* the chain of the value held in ret
RetChain == [rootEmpty |-> ret.rootEmpty, viaGroup |-> ret.viaGroup]

\* inside readAvps: the bytes given, the offset, the offset before the last
\* iteration (-1 before the first), the AVPs appended so far, and whether the
\* loop is running, has returned ("ok") or has panicked
RetLoop(bytes, offset, prev, a, status) ==
    [kind |-> "loop", bytes |-> bytes, offset |-> offset, prev |-> prev,
     avps |-> a, status |-> status]

RetMsg(m) == [kind |-> "msg", msg |-> m]

RetMsgPtr(from, of, in, r) ==
    [kind |-> "msgptr", from |-> from, of |-> of, in |-> in,
     status |-> r.status, nil |-> r.nil, err |-> r.err, msg |-> r.msg]

Built(a) ==
    RetAvps("build", <<>>, <<0, 0>>, NilAvp, NilSlice,
            [status |-> "ok", avps |-> a], ChainAt(a))

RadiusBuilt(a) ==
    RetAvps("build", <<>>, <<0, 0>>, RadiusNilAvp, NilSlice,
            [status |-> "ok", avps |-> a], ChainAt(a))

\* ret holds a collection under construction
IsBuilt == ret.kind = "avps" /\ ret.from = "build"

\* the pointer held in ret
RetPtr == [nil |-> ret.nil, avp |-> ret.avp]

\* the collections a lookup can be called on, each with its chain: a built or
\* decoded collection or a group held in ret, or the AVPs of the message held
\* in ret
Receivers ==
    (IF ret.kind = "avps" /\ ret.status = "ok" /\ ret.from # "Get"
     THEN {[recv |-> ret.avps, chain |-> RetChain]} ELSE {})
        \cup (IF ret.kind = "msgptr" /\ ret.status = "ok" /\ ~ret.nil
              THEN {[recv |-> ret.msg.Avps, chain |-> ChainAt(ret.msg.Avps)]}
              ELSE {})

-----------------------------------------------------------------------------
(* Diameter: the calls *)

\* A call that takes nothing from ret starts a chain of calls: it is made
\* first (ret holds nothing yet).
CallNewAvps ==
    /\ pkg = "diameter"
    /\ ret.kind = "none"
    /\ ret' = Built(NewAvps)
    /\ op' = "NewAvps"
    /\ UNCHANGED pkg

CallNewAvp ==
    /\ pkg = "diameter"
    /\ ret.kind = "none"
    /\ \E code \in Codes, flags \in FlagSet, vendorId \in VendorIds,
          avpData \in Payloads \cup StampPayloads :
          LET a == NewAvp(code, flags, vendorId, avpData)
          IN  ret' = RetAvp([nil |-> FALSE, avp |-> a], <<a>>,
                            <<code, vendorId>>, ChainAt(<<a>>))
    /\ op' = "NewAvp"
    /\ UNCHANGED pkg

\* A collection that holds a grouped AVP holds nothing else: Add is not
\* called on what AddAvps returned.
CallAdd ==
    /\ pkg = "diameter"
    /\ IsBuilt /\ Len(ret.avps) < MaxAvps /\ op # "AddAvps"
    /\ \E code \in Codes, shape \in AddShapes, data \in AddPayloads :
          ret' = Built(Append(ret.avps, NewAvp(code, shape[1], shape[2], data)))
    /\ op' = "Add"
    /\ UNCHANGED pkg

CallAddUint32 ==
    /\ pkg = "diameter"
    /\ IsBuilt /\ Len(ret.avps) < MaxAvps /\ op # "AddAvps"
    /\ \E code \in {258}, shape \in AddShapes, value \in {1} :
          ret' = Built(Append(ret.avps,
                              NewAvpUint32(code, shape[1], shape[2], value)))
    /\ op' = "AddUint32"
    /\ UNCHANGED pkg

\* of is the address given, not a collection
CallNewAvpNetIP ==
    /\ pkg = "diameter"
    /\ ret.kind = "none"
    /\ \E code \in {257}, shape \in GroupShapes, value \in IPs :
          LET a == NewAvpNetIP(code, shape[1], shape[2], value)
          IN  ret' = RetAvp([nil |-> FALSE, avp |-> a], value,
                            <<code, shape[2]>>, ChainAt(<<a>>))
    /\ op' = "NewAvpNetIP"
    /\ UNCHANGED pkg

\* of is the time given, not a collection
CallNewAvpTime ==
    /\ pkg = "diameter"
    /\ ret.kind = "none"
    /\ \E code \in {55}, shape \in GroupShapes, value \in Times :
          LET a == NewAvpTime(code, shape[1], shape[2], value)
          IN  ret' = RetAvp([nil |-> FALSE, avp |-> a], value,
                            <<code, shape[2]>>, ChainAt(<<a>>))
    /\ op' = "NewAvpTime"
    /\ UNCHANGED pkg

\* NewAvpGroup(code, flags, vendorId, c...) on the collection c held in ret
CallNewAvpGroup ==
    /\ pkg = "diameter"
    /\ IsBuilt /\ Len(AvpsToBytes(ret.avps)) <= MaxGroupLen
    /\ \E code \in GroupCodes, shape \in GroupShapes :
          LET g == NewAvpGroup(code, shape[1], shape[2], ret.avps)
          IN  ret' = RetAvp([nil |-> FALSE, avp |-> g], ret.avps,
                            <<code, shape[2]>>, ChainAt(<<g>>))
    /\ op' = "NewAvpGroup"
    /\ UNCHANGED pkg

\* NewAvps().AddAvps(g) on the grouped AVP g held in ret
CallAddAvps ==
    /\ pkg = "diameter"
    /\ ret.kind = "avp" /\ op = "NewAvpGroup"
    /\ ret' = Built(Append(NewAvps, ret.avp))
    /\ op' = "AddAvps"
    /\ UNCHANGED pkg

CallAvpToBytes ==
    /\ pkg = "diameter"
    /\ ret.kind = "avp" /\ ~ret.nil /\ op = "NewAvp"
    /\ ret' = RetBytes("avp", <<ret.avp>>, MkSlice(AvpToBytes(ret.avp)))
    /\ op' = "Avp.ToBytes"
    /\ UNCHANGED pkg

\* Avp.ToBytes of the older variants on the AVP NewAvp returned
CallAvpToBytesOlder ==
    /\ pkg = "diameter"
    /\ ret.kind = "avp" /\ ~ret.nil /\ op = "NewAvp"
    /\ ret' = RetBytes("older", <<ret.avp>>, MkSlice(AvpToBytesOlder(ret.avp)))
    /\ op' = "Avp.ToBytes (older)"
    /\ UNCHANGED pkg

CallAvpsToBytes ==
    /\ pkg = "diameter"
    /\ IsBuilt
    /\ LET b == AvpsToBytes(ret.avps)
       IN  \E k \in Spares(Len(b)) :
              ret' = RetBytes("avps", ret.avps, MkSliceCap(b, k))
    /\ op' = "Avps.ToBytes"
    /\ UNCHANGED pkg

CallReadAvps ==
    /\ pkg = "diameter"
    /\ ret.kind = "bytes" /\ ret.from \in {"avp", "avps"}
    /\ LET r == readAvps(ret.s)
       IN  ret' = RetAvps(ret.from, ret.of, <<0, 0>>, NilAvp, ret.s, r,
                          ChainAt(r.avps))
    /\ op' = "readAvps"
    /\ UNCHANGED pkg

CallNewMessage ==
    /\ pkg = "diameter"
    /\ IsBuilt
    /\ \E h \in Headers, hopByHopId \in {Zeros(4)}, endToEndId \in Ids :
          ret' = RetMsg(NewMessage(h[1], h[2], h[3], h[4], hopByHopId,
                                   endToEndId, ret.avps))
    /\ op' = "NewMessage"
    /\ UNCHANGED pkg

\* Message.ToBytes on the message NewMessage returned or on the one
\* ReadMessage returned from bytes without spare capacity, in being then
\* those bytes.  The spare capacity of the result matters only to a
\* ReadMessage that follows.
CallMessageToBytes ==
    /\ pkg = "diameter"
    /\ \/ ret.kind = "msg"
       \/ ret.kind = "msgptr" /\ ret.status = "ok" /\ ~ret.nil
              /\ ret.in.tail = <<>>
    /\ \E k \in 0..(IF ret.kind = "msg" THEN MaxSpare ELSE 0) :
          ret' = IF ret.kind = "msg"
                 THEN RetBytes("msg", ret.msg,
                               MkSliceCap(MessageToBytes(ret.msg), k))
                 ELSE [kind |-> "bytes", from |-> "read", of |-> ret.msg,
                       s |-> MkSliceCap(MessageToBytes(ret.msg), k),
                       in |-> ret.in]
    /\ op' = "Message.ToBytes"
    /\ UNCHANGED pkg

CallReadMessage ==
    /\ pkg = "diameter"
    /\ ret.kind = "bytes" /\ ret.from = "msg"
    /\ ret' = RetMsgPtr("msg", ret.of, ret.s, ReadMessage(ret.s))
    /\ op' = "ReadMessage"
    /\ UNCHANGED pkg

\* readAvps(bytes) entered, as ReadMessage and ToGroup call it
CallReadAvpsEnter ==
    /\ pkg = "diameter"
    /\ ret.kind = "none"
    /\ \E b \in RawAvps, k \in 0..MaxSpare :
          ret' = RetLoop(MkSliceCap(b, k), 0, -1, NewAvps, "running")
    /\ op' = "readAvps: enter"
    /\ UNCHANGED pkg

\* one iteration of the loop of readAvps
ReadAvpsIterate ==
    /\ pkg = "diameter"
    /\ ret.kind = "loop" /\ ret.status = "running"
    /\ ret.offset < SliceLen(ret.bytes)
    /\ Len(ret.avps) < MaxIterations
    /\ LET it == readAvpsIteration(ret.bytes, ret.offset)
       IN  ret' = IF it.status # "ok"
                  THEN RetLoop(ret.bytes, ret.offset, ret.offset, ret.avps, "panic")
                  ELSE RetLoop(ret.bytes, it.offset, ret.offset,
                               Append(ret.avps, it.avp), "running")
    /\ op' = "readAvps: iterate"
    /\ UNCHANGED pkg

\* the loop of readAvps left, the collection returned
ReadAvpsReturn ==
    /\ pkg = "diameter"
    /\ ret.kind = "loop" /\ ret.status = "running"
    /\ ~(ret.offset < SliceLen(ret.bytes))
    /\ ret' = RetLoop(ret.bytes, ret.offset, ret.prev, ret.avps, "ok")
    /\ op' = "readAvps: return"
    /\ UNCHANGED pkg

\* ReadMessage on bytes that no ToBytes produced: runs of equal bytes, and a
\* header followed by the bytes of RawAvps, the header's length field holding
\* the length of the whole or 0
CallReadMessageRaw ==
    /\ pkg = "diameter"
    /\ ret.kind = "none"
    /\ \E input \in RawInputs \cup
            {MkSlice(CopyAt(MessageToBytes(NewMessage(1, 128, 265, 1, Zeros(4),
                                                      <<1, 2, 3, 4>>, NewAvps)),
                            1, writeUInt24(IF framed THEN 20 + Len(b) ELSE 0))
                     \o b) :
                b \in RawAvps, framed \in BOOLEAN} :
          ret' = RetMsgPtr("raw", ZeroMessage, input, ReadMessage(input))
    /\ op' = "ReadMessage"
    /\ UNCHANGED pkg

CallGet ==
    /\ pkg = "diameter"
    /\ \E c \in Receivers, vendorId \in VendorIds :
       \E code \in LookupCodes(c.recv) :
          ret' = RetAvps("Get", c.recv, <<code, vendorId>>, NilAvp, NilSlice,
                         [status |-> "ok", avps |-> Get(c.recv, code, vendorId)],
                         c.chain)
    /\ op' = "Get"
    /\ UNCHANGED pkg

CallGetFirst ==
    /\ pkg = "diameter"
    /\ \E c \in Receivers, vendorId \in VendorIds :
       \E code \in LookupCodes(c.recv) :
          ret' = RetAvp(GetFirst(c.recv, code, vendorId), c.recv,
                        <<code, vendorId>>, c.chain)
    /\ op' = "GetFirst"
    /\ UNCHANGED pkg

CallToGroup ==
    /\ pkg = "diameter"
    /\ ret.kind = "avp"
    /\ ret' = RetAvps(IF op = "NewAvpGroup" THEN "group" ELSE "ToGroup",
                      IF op = "NewAvpGroup" THEN ret.of ELSE <<>>,
                      <<0, 0>>, RetPtr, NilSlice,
                      ToGroup(RetPtr),
                      [rootEmpty |-> ret.rootEmpty, viaGroup |-> TRUE])
    /\ op' = "ToGroup"
    /\ UNCHANGED pkg

\* WithFlags on the pointer held in ret.  When GetFirst returned the pointer,
\* in is the collection it was called on and after that collection once
\* WithFlags has written through the pointer.
CallWithFlags ==
    /\ pkg = "diameter"
    /\ ret.kind = "avp"
    /\ \E flags \in {0, 64} :
          LET i == IF op = "GetFirst"
                   THEN GetFirstTarget(ret.of, ret.key[1], ret.key[2]) ELSE 0
              r == WithFlags(RetPtr, flags)
          IN  ret' = [kind |-> "flagged", nil |-> r.nil, avp |-> r.avp,
                      before |-> RetPtr, flags |-> flags, from |-> op,
                      in |-> IF op = "GetFirst" THEN ret.of ELSE <<>>,
                      after |-> IF op # "GetFirst" THEN <<>>
                                ELSE IF i = 0 THEN ret.of
                                ELSE [ret.of EXCEPT ![i].Flags = flags]]
    /\ op' = "WithFlags"
    /\ UNCHANGED pkg

\* a typed accessor called on the pointer held in ret
Access(name, r) ==
    /\ pkg = "diameter"
    /\ ret.kind = "avp"
    /\ ret' = RetValue(RetPtr, r, RetChain)
    /\ op' = name
    /\ UNCHANGED pkg

DiameterNext ==
    \/ CallNewAvps \/ CallNewAvp \/ CallAdd \/ CallAddUint32
    \/ CallReadAvpsEnter \/ ReadAvpsIterate \/ ReadAvpsReturn
    \/ CallNewAvpNetIP \/ CallNewAvpTime \/ CallNewAvpGroup \/ CallAddAvps
    \/ CallAvpToBytes \/ CallAvpToBytesOlder \/ CallAvpsToBytes \/ CallReadAvps
    \/ CallNewMessage \/ CallMessageToBytes
    \/ CallReadMessage \/ CallReadMessageRaw
    \/ CallGet \/ CallGetFirst \/ CallToGroup \/ CallWithFlags
    \/ Access("ToData", ToData(RetPtr))
    \/ Access("ToString", ToString(RetPtr))
    \/ Access("ToUint32", ToUint32(RetPtr))
    \/ Access("ToUint64", ToUint64(RetPtr))
    \/ Access("ToFloat32", ToFloat32(RetPtr))
    \/ Access("ToFloat64", ToFloat64(RetPtr))
    \/ Access("ToNetIP", ToNetIP(RetPtr))
    \/ Access("ToTime", ToTime(RetPtr))
    \/ Access("ToStringOrDefault", ToStringOrDefault(RetPtr))
    \/ Access("ToUint32OrDefault", ToUint32OrDefault(RetPtr))
    \/ Access("ToUint64OrDefault", ToUint64OrDefault(RetPtr))
    \/ Access("ToFloat32OrDefault", ToFloat32OrDefault(RetPtr))
    \/ Access("ToFloat64OrDefault", ToFloat64OrDefault(RetPtr))
    \/ Access("ToNetIPOrDefault", ToNetIPOrDefault(RetPtr))
    \/ Access("ToTimeOrDefault", ToTimeOrDefault(RetPtr))

-----------------------------------------------------------------------------
(* RADIUS: the calls *)

CallRadiusNewAvps ==
    /\ pkg = "radius"
    /\ ret.kind = "none"
    /\ ret' = RadiusBuilt(NewAvps)
    /\ op' = "NewAvps"
    /\ UNCHANGED pkg

CallRadiusNewAvp ==
    /\ pkg = "radius"
    /\ ret.kind = "none"
    /\ \E attributeType \in AttributeTypes, vendorId \in VendorIds,
          avpData \in RadiusPayloads :
          LET a == RadiusNewAvp(attributeType, vendorId, avpData)
          IN  ret' = RetAvp([nil |-> FALSE, avp |-> a], <<a>>,
                            <<attributeType, vendorId>>, ChainAt(<<a>>))
    /\ op' = "NewAvp"
    /\ UNCHANGED pkg

CallRadiusNewAvpTime ==
    /\ pkg = "radius"
    /\ ret.kind = "none"
    /\ \E attributeType \in {1}, vendorId \in VendorIds, value \in Times :
          LET a == RadiusNewAvpTime(attributeType, vendorId, value)
          IN  ret' = RetAvp([nil |-> FALSE, avp |-> a], value,
                            <<attributeType, vendorId>>, ChainAt(<<a>>))
    /\ op' = "NewAvpTime"
    /\ UNCHANGED pkg

CallRadiusAdd ==
    /\ pkg = "radius"
    /\ IsBuilt /\ Len(ret.avps) < MaxAvps
    /\ \E attributeType \in AttributeTypes, vendorId \in VendorIds,
          data \in RadiusAddPayloads :
          ret' = RadiusBuilt(Append(ret.avps,
                                    RadiusNewAvp(attributeType, vendorId, data)))
    /\ op' = "Add"
    /\ UNCHANGED pkg

CallRadiusAddUint32 ==
    /\ pkg = "radius"
    /\ IsBuilt /\ Len(ret.avps) < MaxAvps
    /\ \E attributeType \in {1}, vendorId \in VendorIds, value \in {1} :
          ret' = RadiusBuilt(Append(ret.avps,
                     RadiusNewAvpUint32(attributeType, vendorId, value)))
    /\ op' = "AddUint32"
    /\ UNCHANGED pkg

CallRadiusAvpToBytes ==
    /\ pkg = "radius"
    /\ ret.kind = "avp" /\ ~ret.nil /\ op = "NewAvp"
    /\ LET b == RadiusAvpToBytes(ret.avp)
       IN  \E k \in Spares(Len(b)) :
              ret' = RetBytes("avp", <<ret.avp>>, MkSliceCap(b, k))
    /\ op' = "Avp.ToBytes"
    /\ UNCHANGED pkg

CallRadiusAvpsToBytes ==
    /\ pkg = "radius"
    /\ IsBuilt
    /\ LET b == RadiusAvpsToBytes(ret.avps)
       IN  \E k \in Spares(Len(b)) :
              ret' = RetBytes("avps", ret.avps, MkSliceCap(b, k))
    /\ op' = "Avps.ToBytes"
    /\ UNCHANGED pkg

CallRadiusReadAvps ==
    /\ pkg = "radius"
    /\ ret.kind = "bytes" /\ ret.from \in {"avp", "avps"}
    /\ LET r == RadiusReadAvps(ret.s)
       IN  ret' = RetAvps(ret.from, ret.of, <<0, 0>>, RadiusNilAvp, ret.s, r,
                          ChainAt(r.avps))
    /\ op' = "readAvps"
    /\ UNCHANGED pkg

\* The older, map-backed collection (Avps map[avpId][]avp), held in ret as
\* the map m, a function on the keys (type, vendor id) present, and added, the
\* AVPs in the order of the Add calls.  make(Avps) is the map before any Add.
CallMapAdd ==
    /\ pkg = "radius"
    /\ ret.kind \in {"none", "mapavps"}
    /\ LET m     == IF ret.kind = "none" THEN <<>> ELSE ret.m
           added == IF ret.kind = "none" THEN <<>> ELSE ret.added
       IN  /\ Len(added) < MaxAvps
           /\ \E attributeType \in AttributeTypes, vendorId \in VendorIds,
                 data \in AddPayloads :
                 ret' = [kind |-> "mapavps",
                         m |-> MapAdd(m, attributeType, vendorId, data),
                         added |-> Append(added, RadiusNewAvp(attributeType,
                                                              vendorId, data))]
    /\ op' = "Add (map)"
    /\ UNCHANGED pkg

\* NewMessage(code, identifier, authenticator, avps).ToBytes() on the
\* map-backed collection: the header, then the AVPs as range over the map
\* yields them.  Go leaves the order in which range visits the keys of a map
\* unspecified: order is any order of the keys.
CallMapMessageToBytes ==
    /\ pkg = "radius"
    /\ ret.kind = "mapavps"
    /\ \E h \in RadiusHeaders :
       \E order \in {o \in [1..Cardinality(DOMAIN ret.m) -> DOMAIN ret.m] :
                        \A i, j \in DOMAIN o : o[i] = o[j] => i = j} :
          ret' = RetBytes("map", ret.added,
                     MkSlice(RadiusMessageToBytes(
                         RadiusNewMessage(h[1], h[2], h[3],
                                          MapRange(ret.m, order)))))
    /\ op' = "Message.ToBytes (map)"
    /\ UNCHANGED pkg

CallRadiusNewMessage ==
    /\ pkg = "radius"
    /\ IsBuilt
    /\ \E h \in RadiusHeaders :
          ret' = RetMsg(RadiusNewMessage(h[1], h[2], h[3], ret.avps))
    /\ op' = "NewMessage"
    /\ UNCHANGED pkg

CallRadiusMessageToBytes ==
    /\ pkg = "radius"
    /\ \/ ret.kind = "msg"
       \/ ret.kind = "msgptr" /\ ret.status = "ok" /\ ~ret.nil
              /\ ret.in.tail = <<>>
    /\ \E k \in 0..(IF ret.kind = "msg" THEN MaxSpare ELSE 0) :
          ret' = IF ret.kind = "msg"
                 THEN RetBytes("msg", ret.msg,
                               MkSliceCap(RadiusMessageToBytes(ret.msg), k))
                 ELSE [kind |-> "bytes", from |-> "read", of |-> ret.msg,
                       s |-> MkSliceCap(RadiusMessageToBytes(ret.msg), k),
                       in |-> ret.in]
    /\ op' = "Message.ToBytes"
    /\ UNCHANGED pkg

CallRadiusReadMessage ==
    /\ pkg = "radius"
    /\ ret.kind = "bytes" /\ ret.from = "msg"
    /\ ret' = RetMsgPtr("msg", ret.of, ret.s, RadiusReadMessage(ret.s))
    /\ op' = "ReadMessage"
    /\ UNCHANGED pkg

CallRadiusReadAvpsEnter ==
    /\ pkg = "radius"
    /\ ret.kind = "none"
    /\ \E b \in RadiusRawAvps, k \in 0..MaxSpare :
          ret' = RetLoop(MkSliceCap(b, k), 0, -1, NewAvps, "running")
    /\ op' = "readAvps: enter"
    /\ UNCHANGED pkg

RadiusReadAvpsIterate ==
    /\ pkg = "radius"
    /\ ret.kind = "loop" /\ ret.status = "running"
    /\ ret.offset < SliceLen(ret.bytes)
    /\ Len(ret.avps) < MaxIterations
    /\ LET it == RadiusReadAvpsIteration(ret.bytes, ret.offset)
       IN  ret' = IF it.status # "ok"
                  THEN RetLoop(ret.bytes, ret.offset, ret.offset, ret.avps, "panic")
                  ELSE RetLoop(ret.bytes, it.offset, ret.offset,
                               Append(ret.avps, it.avp), "running")
    /\ op' = "readAvps: iterate"
    /\ UNCHANGED pkg

RadiusReadAvpsReturn ==
    /\ pkg = "radius"
    /\ ret.kind = "loop" /\ ret.status = "running"
    /\ ~(ret.offset < SliceLen(ret.bytes))
    /\ ret' = RetLoop(ret.bytes, ret.offset, ret.prev, ret.avps, "ok")
    /\ op' = "readAvps: return"
    /\ UNCHANGED pkg

CallRadiusReadMessageRaw ==
    /\ pkg = "radius"
    /\ ret.kind = "none"
    /\ \E input \in RawInputs \cup
            {MkSlice(CopyAt(RadiusMessageToBytes(
                                RadiusNewMessage(1, 1, Pay(16), NewAvps)),
                            2, PutUint16(IF framed THEN 20 + Len(b) ELSE 0))
                     \o b) :
                b \in RadiusRawAvps, framed \in BOOLEAN} :
          ret' = RetMsgPtr("raw", RadiusZeroMessage, input,
                           RadiusReadMessage(input))
    /\ op' = "ReadMessage"
    /\ UNCHANGED pkg

CallRadiusGet ==
    /\ pkg = "radius"
    /\ \E c \in Receivers, attributeType \in AttributeTypes, vendorId \in VendorIds :
          ret' = RetAvps("Get", c.recv, <<attributeType, vendorId>>,
                         RadiusNilAvp, NilSlice,
                         [status |-> "ok",
                          avps |-> RadiusGet(c.recv, attributeType, vendorId)],
                         c.chain)
    /\ op' = "Get"
    /\ UNCHANGED pkg

CallRadiusGetFirst ==
    /\ pkg = "radius"
    /\ \E c \in Receivers, attributeType \in AttributeTypes, vendorId \in VendorIds :
          ret' = RetAvp(RadiusGetFirst(c.recv, attributeType, vendorId), c.recv,
                        <<attributeType, vendorId>>, c.chain)
    /\ op' = "GetFirst"
    /\ UNCHANGED pkg

RadiusAccess(name, r) ==
    /\ pkg = "radius"
    /\ ret.kind = "avp"
    /\ ret' = RetValue(RetPtr, r, RetChain)
    /\ op' = name
    /\ UNCHANGED pkg

RadiusNext ==
    \/ CallRadiusReadAvpsEnter \/ RadiusReadAvpsIterate \/ RadiusReadAvpsReturn
    \/ CallRadiusNewAvps \/ CallRadiusNewAvp \/ CallRadiusNewAvpTime
    \/ CallRadiusAdd \/ CallRadiusAddUint32
    \/ CallRadiusAvpToBytes \/ CallRadiusAvpsToBytes \/ CallRadiusReadAvps
    \/ CallMapAdd \/ CallMapMessageToBytes
    \/ CallRadiusNewMessage \/ CallRadiusMessageToBytes
    \/ CallRadiusReadMessage \/ CallRadiusReadMessageRaw
    \/ CallRadiusGet \/ CallRadiusGetFirst
    \/ RadiusAccess("ToString", RadiusToString(RetPtr))
    \/ RadiusAccess("ToUint32", RadiusToUint32(RetPtr))
    \/ RadiusAccess("ToNetIP", RadiusToNetIP(RetPtr))
    \/ RadiusAccess("ToTime", RadiusToTime(RetPtr))
    \/ RadiusAccess("ToStringOrDefault", RadiusToStringOrDefault(RetPtr))
    \/ RadiusAccess("ToUint32OrDefault", RadiusToUint32OrDefault(RetPtr))
    \/ RadiusAccess("ToNetIPOrDefault", RadiusToNetIPOrDefault(RetPtr))
    \/ RadiusAccess("ToTimeOrDefault", RadiusToTimeOrDefault(RetPtr))

-----------------------------------------------------------------------------
(* The program *)

Init ==
    /\ pkg \in {"diameter", "radius"}
    /\ op = "init"
    /\ ret = None

\* Go's append of one element to the slice array[0:n]: with spare capacity
\* the element is written into the array the slice already has, otherwise a
\* new array of twice the capacity is allocated and the n elements copied
AppendTo(s, v) ==
    IF s.n < Len(s.array)
    THEN [array |-> [s.array EXCEPT ![s.n + 1] = v], n |-> s.n + 1]
    ELSE [array |-> SubSeq(s.array, 1, s.n) \o <<v>>
                        \o [i \in 1..(IF 2 * s.n > s.n + 1
                                      THEN 2 * s.n - (s.n + 1) ELSE 0) |->
                              IF pkg = "diameter" THEN ZeroAvp
                              ELSE RadiusZeroAvp],
          n |-> s.n + 1]

\* the elements of the slice array[0:n]
Elements(s) == SubSeq(s.array, 1, s.n)

\* NewAvps().Add(...)...Add(...) with n calls of Add: the array and the
\* length of the collection
RECURSIVE AddChain(_)
AddChain(n) ==
    IF n = 0 THEN [array |-> <<>>, n |-> 0]
    ELSE AppendTo(AddChain(n - 1),
                  IF pkg = "diameter" THEN NewAvp(n, 0, 0, MkSlice(Pay(1)))
                  ELSE RadiusNewAvp(n, 0, MkSlice(Pay(1))))

\* b := a.Add(x); c := a.Add(y) on a receiver a built by a chain of Adds:
\* a and b as they are after each of the two calls
CallAddTwice ==
    /\ ret.kind = "none"
    /\ \E n \in 0..MaxChain, x \in AddPayloads, y \in AddPayloads :
          LET a     == AddChain(n)
              X     == IF pkg = "diameter" THEN NewAvp(7, 0, 0, x)
                       ELSE RadiusNewAvp(7, 0, x)
              Y     == IF pkg = "diameter" THEN NewAvp(8, 64, 0, y)
                       ELSE RadiusNewAvp(8, 0, y)
              inPlace == a.n < Len(a.array)
              b     == AppendTo(a, X)
              c     == AppendTo(IF inPlace THEN [a EXCEPT !.array = b.array]
                                ELSE a, Y)
          IN  ret' = [kind |-> "shared", x |-> X, y |-> Y,
                      a0 |-> Elements(a),
                      a1 |-> Elements(IF inPlace
                                      THEN [a EXCEPT !.array = c.array] ELSE a),
                      b0 |-> Elements(b),
                      b1 |-> Elements(IF inPlace
                                      THEN [b EXCEPT !.array = c.array] ELSE b),
                      c |-> Elements(c)]
    /\ op' = "Add, Add"
    /\ UNCHANGED pkg

\* the Data a decoder kept, read again from the array it was cut from:
\* avpData = bytes[lo:hi] is a slice of the input, and NewAvp stores it as it
\* is; buffer is the input as it is now.  The end of the capacity of data is
\* the end of the capacity of the input.
Alias(data, buffer) ==
    IF data.nil THEN data
    ELSE LET hi == Len(buffer.b) + Len(buffer.tail) - Len(data.tail)
         IN  SliceOf(buffer, hi - Len(data.b), hi)

\* the caller stores 255 in every byte of the buffer it had given to
\* ReadMessage, readAvps or ToGroup, once the call has returned: the AVPs it
\* holds before and after.  The buffers given to ReadMessage are those
\* without spare capacity, which no store reaches anyway.
OverwriteInput ==
    /\ \/ ret.kind = "msgptr" /\ ret.status = "ok" /\ ~ret.nil
              /\ ret.in.tail = <<>>
       \/ ret.kind = "loop" /\ ret.status = "ok"
       \/ ret.kind = "avps" /\ op = "ToGroup" /\ ret.status = "ok"
              /\ ~ret.arg.nil /\ ~ret.arg.avp.Data.nil
    /\ LET v      == 255
           in     == IF ret.kind = "msgptr" THEN ret.in
                     ELSE IF ret.kind = "loop" THEN ret.bytes
                     ELSE ret.arg.avp.Data
           held   == IF ret.kind = "msgptr" THEN ret.msg.Avps ELSE ret.avps
           buffer == [in EXCEPT !.b = [i \in 1..Len(in.b) |-> v]]
       IN  ret' = [kind |-> "overwritten", by |-> op, v |-> v, in |-> in,
                   before |-> held,
                   after |-> [i \in 1..Len(held) |->
                                 [held[i] EXCEPT !.Data = Alias(@, buffer)]]]
    /\ op' = "overwrite input"
    /\ UNCHANGED pkg

Next == DiameterNext \/ RadiusNext \/ CallAddTwice \/ OverwriteInput

Spec == Init /\ [][Next]_vars

-----------------------------------------------------------------------------
(* Properties *)

\* the (Code, VendorId, Data) of every AVP of a Diameter collection, in order
Tuples(a) == [i \in 1..Len(a) |-> <<a[i].Code, a[i].VendorId, a[i].Data.b>>]

\* the (Type, VendorId, Data) of every AVP of a RADIUS collection, in order
RadiusTuples(a) == [i \in 1..Len(a) |-> <<a[i].Type, a[i].VendorId, a[i].Data.b>>]

\* ret holds what readAvps made of the encoding of ret.of
Decoded(p) == pkg = p /\ op = "readAvps" /\ ret.kind = "avps"

\* ret holds the encoding of the single AVP ret.of[1]
EncodedAvp(p) == pkg = p /\ op = "Avp.ToBytes" /\ ret.kind = "bytes"

\* ret holds the encoding of the message ret.of
EncodedMessage(p) == pkg = p /\ op = "Message.ToBytes" /\ ret.kind = "bytes"

\* C1: Format A round trip.  For every collection built with NewAvp (any code,
\* any flags argument, any vendor id, any payload), readAvps of its ToBytes
\* returns without fault a collection of the same size whose AVPs have, in
\* order, the original Code, VendorId and Data.
C1_RoundTripA ==
    Decoded("diameter") =>
        /\ ret.status = "ok"
        /\ Len(ret.avps) = Len(ret.of)
        /\ Tuples(ret.avps) = Tuples(ret.of)

\* C2: Format B round trip.  For every collection built with NewAvp (any
\* attribute type 0..255, 26 included, any vendor id, any payload length),
\* readAvps of its ToBytes returns without fault a collection of the same size
\* whose AVPs have, in order, the original Type, VendorId and Data.
C2_RoundTripB ==
    Decoded("radius") =>
        /\ ret.status = "ok"
        /\ Len(ret.avps) = Len(ret.of)
        /\ RadiusTuples(ret.avps) = RadiusTuples(ret.of)

\* C3: Format A vendor marker.  Whatever flags argument NewAvp was given, the
\* flags byte of the encoded AVP has bit 0x80 set exactly when the vendor id
\* is not zero, and the encoding decodes to one AVP with that vendor id.
C3_VendorMarker ==
    /\ EncodedAvp("diameter") =>
          ((ret.s.b[5] \div 128) % 2 = 1 <=> ret.of[1].VendorId # 0)
    /\ (Decoded("diameter") /\ ret.from = "avp") =>
          /\ ret.status = "ok"
          /\ Len(ret.avps) = 1
          /\ ret.avps[1].VendorId = ret.of[1].VendorId

\* the header size of the Diameter AVP a: 8, or 12 with a vendor id
HeaderSize(a) == IF a.VendorId = 0 THEN 8 ELSE 12

\* C4: Format A padding.  The encoding of every AVP built by NewAvp has a
\* length that is a multiple of 4 and equals header + payload + padding with
\* padding = (4 - len(payload) % 4) % 4, its padding bytes are zero, and
\* readAvps of it returns exactly one AVP with the original payload.
C4_Padding ==
    /\ EncodedAvp("diameter") =>
          LET a == ret.of[1]
              n == SliceLen(a.Data)
              padding == (4 - (n % 4)) % 4
              b == ret.s.b
          IN  /\ Len(b) % 4 = 0
              /\ Len(b) = HeaderSize(a) + n + padding
              /\ \A i \in (HeaderSize(a) + n + 1)..Len(b) : b[i] = 0
    /\ (Decoded("diameter") /\ ret.from = "avp") =>
          /\ ret.status = "ok"
          /\ Len(ret.avps) = 1
          /\ ret.avps[1].Data.b = ret.of[1].Data.b

\* C5: Format A message length.  The 3-byte length field at bytes 1..3 of
\* Message.ToBytes equals 20 plus the sum over the top-level AVPs of
\* (length + padding), and equals the number of bytes ToBytes returns.
C5_MessageLengthA ==
    EncodedMessage("diameter") =>
        LET field == readUInt24(SubSeq(ret.s.b, 2, 4))
        IN  /\ field = 20 + SumEncoded(ret.of.Avps)
            /\ field = Len(ret.s.b)

\* a two-AVP Diameter message, one AVP padded and one with a vendor id, has
\* been encoded
C5_Witness ==
    /\ EncodedMessage("diameter")
    /\ Len(ret.of.Avps) = 2
    /\ \E i \in 1..2 : ret.of.Avps[i].padding > 0
    /\ \E i \in 1..2 : ret.of.Avps[i].VendorId # 0

\* C6: Format B message length.  The 2-byte length field at bytes 2..3 of
\* Message.ToBytes equals 20 plus the number of bytes emitted for the AVPs,
\* and equals the number of bytes ToBytes returns, whatever the payload
\* lengths.
C6_MessageLengthB ==
    EncodedMessage("radius") =>
        LET field == ret.s.b[3] * 256 + ret.s.b[4]
        IN  /\ field = 20 + Len(RadiusAvpsToBytes(ret.of.Avps))
            /\ field = Len(ret.s.b)

\* C7: ReadMessage, in both formats, returns nil without fault on fewer than
\* 20 bytes (Diameter with the error "invalid message length") and a message
\* with no AVPs on exactly 20 bytes.
C7_ShortMessage ==
    (op = "ReadMessage" /\ ret.kind = "msgptr") =>
        /\ Len(ret.in.b) < 20 =>
              /\ ret.status = "ok"
              /\ ret.nil
              /\ pkg = "diameter" => ret.err = "invalid message length"
        /\ Len(ret.in.b) = 20 =>
              /\ ret.status = "ok"
              /\ ~ret.nil
              /\ ret.err = ""
              /\ ret.msg.Avps = <<>>

\* ReadMessage has returned nil and the error on 19 bytes of Diameter input
C7_Witness ==
    /\ pkg = "diameter" /\ op = "ReadMessage" /\ ret.kind = "msgptr"
    /\ Len(ret.in.b) = 19
    /\ ret.nil /\ ret.err = "invalid message length"

PointerAccessors ==
    {"ToString", "ToUint32", "ToUint64", "ToFloat32", "ToFloat64", "ToNetIP",
     "ToTime"}

\* the zero value each ...OrDefault accessor returns
ZeroValue(name) ==
    CASE name = "ToStringOrDefault"  -> <<>>
      [] name = "ToUint32OrDefault"  -> Zero32
      [] name = "ToUint64OrDefault"  -> Zero64
      [] name = "ToFloat32OrDefault" -> [bits |-> Zero32]
      [] name = "ToFloat64OrDefault" -> [bits |-> Zero64]
      [] name = "ToNetIPOrDefault"   -> <<>>
      [] name = "ToTimeOrDefault"    -> [zero |-> TRUE, unix |-> [hi |-> 0, lo |-> 0]]

\* C8: absence propagates.  ToGroup yields an empty collection, without
\* fault, for a nil AVP and for an AVP whose payload is nil or of length zero;
\* a chain of lookups that starts from an empty collection ends in nil for
\* every pointer accessor and ToData, and in the zero value for every
\* ...OrDefault accessor.
C8_AbsencePropagation ==
    pkg = "diameter" =>
        /\ (op = "ToGroup" /\ (ret.arg.nil \/ SliceLen(ret.arg.avp.Data) = 0)) =>
              ret.status = "ok" /\ ret.avps = <<>>
        /\ (op = "ToGroup" /\ ret.rootEmpty) =>
              ret.status = "ok" /\ ret.avps = <<>>
        /\ (op = "GetFirst" /\ ret.rootEmpty) => ret.nil
        /\ (ret.kind = "value" /\ ret.rootEmpty) =>
              /\ op \in PointerAccessors => ret.r = Absent
              /\ op = "ToData" => ret.r.nil
              /\ op \notin PointerAccessors \cup {"ToData"} =>
                    ret.r = [status |-> "ok", val |-> ZeroValue(op)]

\* ToUint32 has been called at the end of a chain that started from an empty
\* collection and went through ToGroup on a nil AVP
C8_Witness ==
    /\ pkg = "diameter" /\ op = "ToUint32" /\ ret.kind = "value"
    /\ ret.rootEmpty /\ ret.viaGroup
    /\ ret.arg.nil
    /\ ret.r = Absent

\* C9: every typed accessor, in both formats, returns nil without fault on an
\* AVP whose payload is empty, nil or of length zero.
C9_EmptyPayload ==
    (ret.kind = "value" /\ op \in PointerAccessors
        /\ ~ret.arg.nil /\ SliceLen(ret.arg.avp.Data) = 0) =>
        ret.r.status = "ok" /\ ret.r.nil

\* the (code, vendor id) a lookup compares of the AVP a
LookupKey(a) ==
    IF pkg = "diameter" THEN <<a.Code, a.VendorId>> ELSE <<a.Type, a.VendorId>>

\* the AVPs of the collection a whose (code, vendor id) is key, in order
Matching(a, key) == SelectSeq(a, LAMBDA x : LookupKey(x) = key)

\* C10: Get returns exactly the AVPs of the collection whose code and vendor
\* id both match, in their order; GetFirst returns nil exactly when Get is
\* empty and otherwise the first of them.
C10_Lookup ==
    /\ (op = "Get" /\ ret.kind = "avps") =>
          ret.status = "ok" /\ ret.avps = Matching(ret.of, ret.key)
    /\ (op = "GetFirst" /\ ret.kind = "avp") =>
          /\ ret.nil <=> Matching(ret.of, ret.key) = <<>>
          /\ ~ret.nil => ret.avp = Head(Matching(ret.of, ret.key))

\* Get has left out of a two-AVP collection an AVP that has the code looked
\* up but another vendor id
C10_Witness ==
    /\ pkg = "diameter" /\ op = "Get" /\ ret.kind = "avps"
    /\ Len(ret.of) = 2 /\ Len(ret.avps) = 1
    /\ \A i \in 1..2 : ret.of[i].Code = ret.key[1]

\* C11: group nesting.  For every collection c, NewAvpGroup(code, flags,
\* vendor, c...).ToGroup() returns without fault AVPs with the (Code,
\* VendorId, Data) of c in order; and a grouped AVP written into a message by
\* ToBytes and read back by ReadMessage yields the same group.
C11_GroupNesting ==
    pkg = "diameter" =>
        /\ (op = "ToGroup" /\ ret.from = "group") =>
              /\ ret.status = "ok"
              /\ Tuples(ret.avps) = Tuples(ret.of)
        /\ (op = "ReadMessage" /\ ret.kind = "msgptr" /\ ret.from = "msg") =>
              /\ ret.status = "ok" /\ ~ret.nil
              /\ Len(ret.msg.Avps) = Len(ret.of.Avps)
              /\ \A i \in 1..Len(ret.of.Avps) :
                    ret.of.Avps[i].Code \in GroupCodes =>
                        LET read  == ToGroup([nil |-> FALSE, avp |-> ret.msg.Avps[i]])
                            built == ToGroup([nil |-> FALSE, avp |-> ret.of.Avps[i]])
                        IN  /\ read.status = "ok" /\ built.status = "ok"
                            /\ Tuples(read.avps) = Tuples(built.avps)

\* the bytes 1..n of a value written big-endian on n bytes (n <= 4)
BigEndian(v, n) == SubSeq(PutUint32(v), 5 - n, 4)

\* the Format A layout of the AVP a: code, flags, length, vendor id when it
\* is not zero, payload, zero bytes up to the next multiple of 4
LayoutA(a) ==
    LET n    == SliceLen(a.Data)
        head == BigEndian(a.Code, 4) \o <<a.Flags>>
                    \o BigEndian(8 + n + (IF a.VendorId # 0 THEN 4 ELSE 0), 3)
                    \o (IF a.VendorId # 0 THEN BigEndian(a.VendorId, 4) ELSE <<>>)
                    \o a.Data.b
    IN  head \o [i \in 1..((4 - (Len(head) % 4)) % 4) |-> 0]

\* C12: Format A AVP wire layout.  Avp.ToBytes, in every variant of it, emits
\* the 4-byte code, the flags byte, the 3-byte length 8 + payload length (+ 4
\* with a vendor id), the vendor id at bytes 8..11 when it is not zero, the
\* payload and zero bytes up to the next 4-byte boundary.
C12_LayoutA ==
    (pkg = "diameter" /\ ret.kind = "bytes"
        /\ op \in {"Avp.ToBytes", "Avp.ToBytes (older)"}) =>
        ret.s.b = LayoutA(ret.of[1])

\* C13: Format B AVP wire layout.  For vendor id 0 Avp.ToBytes emits the type
\* byte, the length byte payload length + 2 and the payload; for another
\* vendor id it emits 26, the outer length byte payload length + 8, the 4-byte
\* vendor id, the inner type byte, the inner length byte payload length + 2
\* and the payload.  Every length byte is in 2..255 and the outer one is the
\* number of bytes emitted.
C13_LayoutB ==
    EncodedAvp("radius") =>
        LET a == ret.of[1]
            n == SliceLen(a.Data)
            b == ret.s.b
        IN  /\ a.VendorId = 0 => b = <<a.Type, n + 2>> \o a.Data.b
            /\ a.VendorId # 0 =>
                  /\ b = <<26, n + 8>> \o BigEndian(a.VendorId, 4)
                            \o <<a.Type, n + 2>> \o a.Data.b
                  /\ b[8] \in 2..255
            /\ b[2] \in 2..255
            /\ b[2] = Len(b)

\* x + y on values kept as hi * 65536 + lo
WideAdd(x, y) ==
    LET lo == x.lo + y.lo
    IN  [hi |-> x.hi + y.hi + lo \div 65536, lo |-> lo % 65536]

\* the time t, in Unix seconds, can be written in the format of pkg: its
\* count of seconds since the format's epoch fits 32 bits
Representable(t) ==
    LET s == IF pkg = "diameter" THEN WideAdd(t, EpochOffset) ELSE t
    IN  s.hi \in 0..65535

\* C14: timestamp encoding.  Format A NewAvpTime(t) writes the 4 big-endian
\* bytes of (t.Unix() + 2208988800) mod 2^32, Format B those of t.Unix() mod
\* 2^32, and in each format ToTime(NewAvpTime(t)) is t for every
\* representable t.
C14_TimeEncoding ==
    /\ (op = "NewAvpTime" /\ ret.kind = "avp") =>
          ret.avp.Data.b =
              PutUint32Wide(IF pkg = "diameter" THEN WideAdd(ret.of, EpochOffset)
                            ELSE ret.of)
    /\ (op = "ToTime" /\ ret.kind = "value" /\ ret.by = "NewAvpTime"
            /\ Representable(ret.of)) =>
          ret.r = Present([zero |-> FALSE, unix |-> ret.of])

\* C15: timestamp decoding.  On a 4-byte payload holding the big-endian
\* unsigned value r, Format A ToTime returns the Unix time r - 2208988800,
\* negative when r is smaller and never wrapped, and Format B ToTime returns
\* the Unix time r.
C15_TimeDecoding ==
    (op = "ToTime" /\ ret.kind = "value" /\ ~ret.arg.nil
        /\ SliceLen(ret.arg.avp.Data) = 4) =>
        /\ ret.r.status = "ok" /\ ~ret.r.nil /\ ~ret.r.val.zero
        /\ ret.r.val.unix.lo \in 0..65535
        /\ Uint32Wide(ret.arg.avp.Data.b) =
              IF pkg = "diameter" THEN WideAdd(ret.r.val.unix, EpochOffset)
              ELSE ret.r.val.unix

\* Format A ToTime has returned a time before 1970 for a payload below the
\* epoch offset
C15_Witness ==
    /\ pkg = "diameter" /\ op = "ToTime" /\ ret.kind = "value"
    /\ ~ret.arg.nil /\ ret.arg.avp.Data.b = <<0, 0, 0, 0>>
    /\ ret.r.status = "ok" /\ ret.r.val.unix.hi < 0

\* ip is an IPv4 address: 4 bytes, or the 16 bytes ::ffff:a.b.c.d
IsIPv4(ip) ==
    \/ Len(ip) = 4
    \/ Len(ip) = 16 /\ \A i \in 1..10 : ip[i] = 0 /\ ip[11] = 255 /\ ip[12] = 255

\* the form in which an address is read back: 4 bytes for IPv4, 16 for IPv6
AddressForm(ip) ==
    IF ~IsIPv4(ip) THEN ip
    ELSE IF Len(ip) = 4 THEN ip ELSE <<ip[13], ip[14], ip[15], ip[16]>>

HeaderOf(m) ==
    IF pkg = "diameter"
    THEN <<m.Version, m.Flags, m.CommandCode, m.ApplicationId, m.HopByHopId,
           m.EndToEndId>>
    ELSE <<m.Code, m.Identifier, m.Authenticator>>

\* C17: message header round trip, both formats.  For every value of each
\* header field's declared type given to NewMessage, the encoded header is
\* exactly 20 bytes and ReadMessage(NewMessage(...).ToBytes()) returns a
\* message with the same header fields.
C17_HeaderRoundTrip ==
    /\ (op = "Message.ToBytes" /\ ret.kind = "bytes") =>
          Len(ret.s.b) = 20 + Len(IF pkg = "diameter"
                                  THEN AvpsToBytes(ret.of.Avps)
                                  ELSE RadiusAvpsToBytes(ret.of.Avps))
    /\ (op = "ReadMessage" /\ ret.kind = "msgptr" /\ ret.from = "msg"
            /\ ret.status = "ok") =>
          ~ret.nil /\ HeaderOf(ret.msg) = HeaderOf(ret.of)

\* the loop of readAvps is being followed
InLoop(p) == pkg = p /\ ret.kind = "loop"

\* C18: decoding a bare AVP collection is infallible, in both formats.
\* readAvps, and so ToGroup and ReadMessage on at least 20 bytes, returns a
\* collection for every input and never reads or slices outside the buffer.
C18_Infallible ==
    /\ ret.kind = "loop" => ret.status # "panic"
    /\ (op = "ToGroup" /\ ret.kind = "avps" /\ ~ret.arg.nil) => ret.status = "ok"
    /\ (op = "ReadMessage" /\ ret.kind = "msgptr" /\ Len(ret.in.b) >= 20) =>
          ret.status = "ok"

\* C19: Format B decode termination.  For every input the readAvps loop
\* ends, because every iteration leaves the offset strictly greater than it
\* found it; this includes attribute type 26 with an outer length byte of 0
\* or one inconsistent with the inner length byte.
C19_TerminationB ==
    /\ (InLoop("radius") /\ ret.prev >= 0 /\ ret.status # "panic") =>
          ret.offset > ret.prev
    /\ (pkg = "radius" /\ op = "ReadMessage" /\ ret.kind = "msgptr") =>
          ret.status # "hang"

\* C20: Format A decode termination.  For every input the readAvps loop
\* ends, because every iteration that does not fault leaves the offset at
\* least 8 greater than it found it.
C20_TerminationA ==
    (InLoop("diameter") /\ ret.prev >= 0 /\ ret.status # "panic") =>
        ret.offset >= ret.prev + 8

\* the Format A loop has returned after two iterations, the first of them
\* over an AVP of the smallest length
C20_Witness ==
    /\ InLoop("diameter") /\ ret.status = "ok"
    /\ Len(ret.avps) = 2 /\ ret.avps[1].length = 8
    /\ ret.offset = SliceLen(ret.bytes)

\* length and padding of the AVP a are the ones NewAvp computes
LengthInvariant(a) ==
    /\ a.length = 8 + Len(a.Data.b) + (IF a.VendorId # 0 THEN 4 ELSE 0)
    /\ a.padding = (4 - (Len(a.Data.b) % 4)) % 4

\* the AVPs the last call returned
Obtained ==
    CASE ret.kind \in {"avp", "flagged"} -> IF ret.nil THEN <<>> ELSE <<ret.avp>>
      [] ret.kind \in {"avps", "loop"}   -> ret.avps
      [] ret.kind = "msg"                 -> ret.msg.Avps
      [] ret.kind = "msgptr"              -> ret.msg.Avps
      [] OTHER                            -> <<>>

\* the length declared in the AVP header at the given offset
DeclaredLength(bytes, offset) == readUInt24(SubSeq(bytes.b, offset + 6, offset + 8))

\* C24: AVP length invariant, Format A.  Every AVP obtained from the public
\* operations has length = 8 + len(Data) + (4 if VendorId # 0) and padding =
\* (4 - len(Data) mod 4) mod 4, and an AVP decoded from the wire has the
\* length declared on the wire.
C24_LengthInvariant ==
    pkg = "diameter" =>
        /\ \A i \in 1..Len(Obtained) : LengthInvariant(Obtained[i])
        /\ (ret.kind = "loop" /\ ret.prev >= 0 /\ ret.status # "panic") =>
              ret.avps[Len(ret.avps)].length = DeclaredLength(ret.bytes, ret.prev)

\* C25: WithFlags(f) is flags-only.  The AVP returned has Flags = f and the
\* Code, VendorId, Data, length and padding it had before, and WithFlags on
\* an absent AVP returns absent without faulting.
C25_FlagsOnly ==
    (op = "WithFlags" /\ ret.kind = "flagged") =>
        /\ ret.before.nil => ret.nil
        /\ ~ret.before.nil =>
              /\ ~ret.nil
              /\ ret.avp.Flags = ret.flags
              /\ ret.avp.Code = ret.before.avp.Code
              /\ ret.avp.VendorId = ret.before.avp.VendorId
              /\ ret.avp.Data = ret.before.avp.Data
              /\ ret.avp.length = ret.before.avp.length
              /\ ret.avp.padding = ret.before.avp.padding

\* WithFlags has changed the flags of an AVP that has a vendor id and a payload
C25_Witness ==
    /\ op = "WithFlags" /\ ret.kind = "flagged" /\ ~ret.nil
    /\ ret.before.avp.Flags = 128 /\ ret.flags = 64
    /\ ret.avp.VendorId # 0 /\ Len(ret.avp.Data.b) > 0

RECURSIVE WireOrder(_)
WireOrder(a) ==
    IF a = <<>> THEN <<>>
    ELSE WireOrder(SubSeq(a, 1, Len(a) - 1)) \o RadiusAvpToBytes(a[Len(a)])

\* C21: RADIUS wire order.  Message.ToBytes emits the AVPs in the order in
\* which they were added, the i-th added AVP being the i-th encoded one also
\* when the keys (type, vendor) differ, in the slice-backed collection and in
\* the map-backed one.
C21_WireOrder ==
    /\ (EncodedMessage("radius") /\ ret.from = "msg") =>
          SubSeq(ret.s.b, 21, Len(ret.s.b)) = WireOrder(ret.of.Avps)
    /\ (pkg = "radius" /\ op = "Message.ToBytes (map)") =>
          SubSeq(ret.s.b, 21, Len(ret.s.b)) = WireOrder(ret.of)

\* the bytes b from the 0-based offset o on are well-formed Format A AVPs:
\* each has its 8-byte header, or 12 bytes with the vendor id when flag bit
\* 0x80 is set, a declared length that covers it and stays in b, and zero
\* bytes of padding up to the next multiple of 4
RECURSIVE WellFormedAvps(_, _)
WellFormedAvps(b, o) ==
    IF o = Len(b) THEN TRUE
    ELSE IF o + 8 > Len(b) THEN FALSE
    ELSE LET length == b[o + 6] * 65536 + b[o + 7] * 256 + b[o + 8]
             header == IF b[o + 5] >= 128 THEN 12 ELSE 8
             next   == o + length + ((4 - (length % 4)) % 4)
         IN  /\ length >= header
             /\ next <= Len(b)
             /\ \A i \in (o + length + 1)..next : b[i] = 0
             /\ WellFormedAvps(b, next)

\* b is a well-formed Format A message: a 20-byte header whose length field
\* is the length of b, then well-formed AVPs
WellFormedMessage(b) ==
    /\ Len(b) >= 20
    /\ b[2] * 65536 + b[3] * 256 + b[4] = Len(b)
    /\ WellFormedAvps(b, 20)

\* C22: bytes to message and back, Format A.  For every well-formed message
\* b, ReadMessage(b).ToBytes() equals b byte for byte.
C22_BytesRoundTrip ==
    (pkg = "diameter" /\ op = "Message.ToBytes" /\ ret.kind = "bytes"
        /\ ret.from = "read" /\ WellFormedMessage(ret.in.b)) =>
        ret.s.b = ret.in.b

\* the input with its header length field overwritten by l
Relabelled(in, l) ==
    [in EXCEPT !.b = IF pkg = "diameter" THEN CopyAt(@, 1, writeUInt24(l))
                     ELSE CopyAt(@, 2, PutUint16(l))]

\* ReadMessage and the decoder of AVPs of the format of pkg
Reading(in) == IF pkg = "diameter" THEN ReadMessage(in) ELSE RadiusReadMessage(in)

Bare(in) == IF pkg = "diameter" THEN readAvps(in) ELSE RadiusReadAvps(in)

RECURSIVE OuterCount(_, _)
OuterCount(b, o) ==
    IF o + 1 >= Len(b) \/ b[o + 2] = 0 THEN 0
    ELSE 1 + OuterCount(b, o + b[o + 2])

\* C29: Format B vendor-specific decoding gives one AVP per outer
\* attribute.  For an outer attribute of type 26 the decoder appends one AVP
\* whose vendor id is bytes 2..5 of the attribute, whose type is the first
\* inner type byte and whose payload ends where the first inner length byte
\* says, and goes on at the outer length; the sub-attributes after the first
\* are not returned.
C29_OneAvpPerOuter ==
    /\ (pkg = "radius" /\ op = "readAvps: iterate" /\ ret.status = "running"
            /\ ret.bytes.b[ret.prev + 1] = 26) =>
          LET b    == ret.bytes.b
              at   == ret.prev
              last == ret.avps[Len(ret.avps)]
          IN  /\ last.VendorId = Uint32(SubSeq(b, at + 3, at + 6))
              /\ last.Type = b[at + 7]
              /\ last.Data.b = SubSeq(b, at + 9, at + 6 + b[at + 8])
              /\ ret.offset = at + b[at + 2]
    /\ (pkg = "radius" /\ op = "readAvps: return") =>
          Len(ret.avps) = OuterCount(ret.bytes.b, 0)

\* readAvps has returned one AVP, the first sub-attribute, for a
\* vendor-specific attribute that holds two sub-attributes
C29_Witness ==
    /\ pkg = "radius" /\ op = "readAvps: return"
    /\ ret.bytes.b = <<26, 14, 0, 0, 40, 175, 1, 3, 7, 2, 5, 1, 2, 3>>
    /\ Len(ret.avps) = 1
    /\ ret.avps[1].Type = 1 /\ ret.avps[1].VendorId = 10415
    /\ ret.avps[1].Data.b = <<7>>

\* the payloads of the top-level Format A AVPs of b from the 0-based offset
\* o on: for each AVP the bytes between its header and its declared length
RECURSIVE TopLevelPayloads(_, _)
TopLevelPayloads(b, o) ==
    IF o + 8 > Len(b) THEN <<>>
    ELSE LET length == b[o + 6] * 65536 + b[o + 7] * 256 + b[o + 8]
             header == IF b[o + 5] >= 128 THEN 12 ELSE 8
         IN  IF length < header THEN <<>>
             ELSE <<SubSeq(b, o + header + 1, o + length)>>
                      \o TopLevelPayloads(b, o + length + ((4 - (length % 4)) % 4))

DataOf(a) == [i \in 1..Len(a) |-> a[i].Data.b]

\* C30: decoding is lazy for groups.  readAvps and ReadMessage return one
\* AVP per top-level AVP on the wire and the Data of a grouped AVP is its raw
\* nested bytes; nested AVPs are decoded only by ToGroup, which decodes one
\* level, and a further ToGroup call on the same AVP returns an equal
\* collection.
C30_LazyGroups ==
    /\ (pkg = "diameter" /\ op = "ReadMessage" /\ ret.kind = "msgptr"
            /\ ret.status = "ok" /\ ~ret.nil) =>
          DataOf(ret.msg.Avps) = TopLevelPayloads(ret.in.b, 20)
    /\ (pkg = "diameter" /\ op = "readAvps" /\ ret.kind = "avps"
            /\ ret.status = "ok") =>
          DataOf(ret.avps) = TopLevelPayloads(ret.in.b, 0)
    /\ (pkg = "diameter" /\ op = "ToGroup" /\ ret.kind = "avps") =>
          /\ ToGroup(ret.arg) = [status |-> ret.status, avps |-> ret.avps]
          /\ (ret.status = "ok" /\ ~ret.arg.nil /\ ~ret.arg.avp.Data.nil) =>
                DataOf(ret.avps) = TopLevelPayloads(ret.arg.avp.Data.b, 0)

\* ReadMessage has returned one AVP for a message that holds one grouped
\* AVP: its Data is the bytes of the group as they were encoded, and ToGroup
\* on it gives the members
C30_Witness ==
    /\ pkg = "diameter" /\ op = "ReadMessage" /\ ret.kind = "msgptr"
    /\ ret.status = "ok" /\ ~ret.nil /\ ret.from = "msg"
    /\ Len(ret.of.Avps) = 1 /\ ret.of.Avps[1].Code \in GroupCodes
    /\ Len(ret.msg.Avps) = 1
    /\ ret.msg.Avps[1].Data.b = ret.of.Avps[1].Data.b
    /\ LET members == ToGroup([nil |-> FALSE, avp |-> ret.msg.Avps[1]])
       IN  members.status = "ok" /\ Len(members.avps) = 2

\* C26: collections derived from a common receiver do not share mutable
\* storage.  After b := a.Add(x) and c := a.Add(y) on the same receiver, a
\* is unchanged and b still ends with the AVP of the first call.
C26_NoSharedStorage ==
    (op = "Add, Add" /\ ret.kind = "shared") =>
        /\ ret.a1 = ret.a0
        /\ ret.b1 = ret.b0
        /\ ret.b1[Len(ret.b1)] = ret.x
        /\ ret.c[Len(ret.c)] = ret.y

\* C27: decoded values are independent of the input buffer.  After
\* ReadMessage, readAvps or ToGroup has returned, overwriting the input
\* buffer does not change the Data of any returned AVP.
C27_IndependentOfInput ==
    (op = "overwrite input" /\ ret.kind = "overwritten") =>
        \A i \in 1..Len(ret.before) :
            ret.after[i].Data.b = ret.before[i].Data.b
====
